---- MODULE Spec2Model ----
(***************************************************************************)
(* The per-attempt pipeline of the adaptive-learning core:                 *)
(* MasteryService.updateMastery, with ErrorPatternService.recordOutcome,   *)
(* ReviewQueueRepo and PrerequisiteService, over the four tables           *)
(* exerciseOutcomes, errorPatterns, studentProgress, spacedRepetitionCards.*)
(* Every await of the handler is one step: calls of several requests       *)
(* interleave between awaits, exactly as they do on the Node event loop.   *)
(*                                                                         *)
(* Numbers: percentages and the easiness factor are kept in hundredths     *)
(* (DECIMAL(5,2) columns); the float comparisons of the code are made on   *)
(* exact fractions numerator/totalAttempts.  Timestamps are ticks of a     *)
(* logical clock that advances with every arriving request.               *)
(***************************************************************************)
EXTENDS Integers, Sequences, FiniteSets, TLC

VARIABLES
    outcomes,       \* table exerciseOutcomes, in insertion (attemptedAt) order
    errorPatterns,  \* table errorPatterns: set of rows
    progress,       \* table studentProgress: set of rows
    cards,          \* table spacedRepetitionCards: set of rows
    calls,          \* per request slot: position in updateMastery and its locals
    clock,          \* current time, in ticks
    due,            \* what the latest getDueCards query returned
    reply           \* what the latest query of the competence framework returned

vars == <<outcomes, errorPatterns, progress, cards, calls, clock, due, reply>>

(***************************** bounds **************************************)
\* calls started in one behaviour of the concurrent specification
MaxCalls == 3
\* calls started in one behaviour of the sequential specifications
MaxSeqCalls == 3
\* ticks of the logical clock in one day
DayTicks == 100

(************************ program constants ********************************)
WindowSize == 20
BlockWindow == 5
BlockFails == 3

Procs == {1, 2}

NULL == {}
Some(x) == {x}
The(s) == CHOOSE x \in s : TRUE

Min(a, b) == IF a <= b THEN a ELSE b
Max(a, b) == IF a >= b THEN a ELSE b

\* n/d rounded to the nearest integer, halves away from zero (Math.round on
\* the non-negative values that occur, and the rounding of a DECIMAL column)
RoundDiv(n, d) == IF n >= 0 THEN (2 * n + d) \div (2 * d)
                  ELSE 0 - ((2 * (0 - n) + d) \div (2 * d))

(***************************** inputs **************************************)
AttemptOf(c, ok, h, q, tags) ==
    [studentId |-> 1, exerciseId |-> 7, competenceCode |-> c, isCorrect |-> ok,
     hintsUsed |-> h, timeSpentSec |-> 30, quality |-> q, errorTags |-> tags]

\* the tags a grader attaches: one to a wrong answer, none to a right one
TagsOf(ok) == IF ok THEN <<>> ELSE <<"confusion_son">>

\* attempts of the concurrent specification: one pair, no hints, a right
\* answer of quality 4 or a wrong one of quality 2
ConcAttempts ==
    {AttemptOf("CE2.FR.L.1.1", ok, 0, IF ok THEN 4 ELSE 2, TagsOf(ok)) :
        ok \in BOOLEAN}

\* attempts of the sequential specification
SeqAttempts ==
    {AttemptOf("CE2.FR.L.1.1", ok, h, q, TagsOf(ok)) :
        ok \in BOOLEAN, h \in {0, 1, 6}, q \in {0, 3, 5}}

\* what the spec's Outcome Recorder accepts
ValidAttempt(a) ==
    /\ a.quality >= 0 /\ a.quality <= 5
    /\ a.hintsUsed >= 0
    /\ a.timeSpentSec >= 0

\* attempts a caller can pass: the handler takes any numbers
AnyAttempts ==
    {AttemptOf("CE2.FR.L.1.1", ok, h, q, TagsOf(ok)) :
        ok \in BOOLEAN, h \in {0 - 1, 0, 6}, q \in {0 - 1, 3, 6}}

(************************* reference data **********************************)
\* one entry of the curriculum data; saut_qualitatif and nouveaute say
\* whether the entry carries that field
Competence(niveau, sousDomaine, code, prerequis, saut, nouv) ==
    [code |-> code, niveau |-> niveau, sousDomaine |-> sousDomaine,
     prerequis |-> prerequis, saut_qualitatif |-> saut, nouveaute |-> nouv]

\* entries of CE1_COMPETENCES_2025 carried by the model, in data order
CE1_COMPETENCES_2025 ==
    <<Competence("CE1", "lecture", "CE1.FR.L1.2",
                 <<"CP.FR.L1.4", "CP.FR.L1.5">>, TRUE, FALSE),
      Competence("CE1", "lecture", "CE1.FR.L3.1",
                 <<"CP.FR.L1.6", "CP.FR.V2.1">>, FALSE, TRUE)>>

\* entries of CE2_COMPETENCES_2026 carried by the model, in data order; the
\* data uses the code CE2.FR.O.1.1 for an entry of oral and for one of
\* orthographe
CE2_COMPETENCES_2026 ==
    <<Competence("CE2", "oral", "CE2.FR.O.1.1",
                 <<"CE1.FR.O1.1", "CE1.FR.O1.2">>, TRUE, FALSE),
      Competence("CE2", "oral", "CE2.FR.O.3.1",
                 <<"CE1.FR.O2.1">>, FALSE, TRUE),
      Competence("CE2", "lecture", "CE2.FR.L.1.1",
                 <<"CE1.FR.L1.2">>, TRUE, FALSE),
      Competence("CE2", "lecture", "CE2.FR.L.1.2",
                 <<"CE1.FR.L1.1">>, TRUE, FALSE),
      Competence("CE2", "orthographe", "CE2.FR.O.1.1",
                 <<"CE1.FR.G2.2", "CE1.FR.G2.3">>, FALSE, TRUE)>>

RECURSIVE Concat(_)
Concat(ss) == IF ss = <<>> THEN <<>> ELSE Head(ss) \o Concat(Tail(ss))

\* the rows generatePrerequisites makes for the seed of competencePrerequisites:
\* per entry one row per prerequisite, weight 1.0 - index * 0.1 (in hundredths)
generatePrerequisites ==
    Concat([n \in DOMAIN CE2_COMPETENCES_2026 |->
              LET e == CE2_COMPETENCES_2026[n]
              IN [i \in DOMAIN e.prerequis |->
                    [competenceCode |-> e.code, prerequisiteCode |-> e.prerequis[i],
                     weight |-> 100 - 10 * (i - 1)]]])

\* s with row r put before the first row of smaller weight
RECURSIVE InsertByWeight(_, _)
InsertByWeight(s, r) ==
    IF s = <<>> THEN <<r>>
    ELSE IF Head(s).weight < r.weight THEN <<r>> \o s
    ELSE <<Head(s)>> \o InsertByWeight(Tail(s), r)

RECURSIVE ByWeightDesc(_)
ByWeightDesc(s) ==
    IF s = <<>> THEN <<>>
    ELSE InsertByWeight(ByWeightDesc(SubSeq(s, 1, Len(s) - 1)), s[Len(s)])

\* rows of competencePrerequisites for a code, by descending weight (in
\* hundredths), as seeded from the CE2 framework
PrerequisiteRows(code) ==
    ByWeightDesc(SelectSeq(generatePrerequisites, LAMBDA r : r.competenceCode = code))

(*************************** pure helpers **********************************)
SamePair(r, a) == r.studentId = a.studentId /\ r.competenceCode = a.competenceCode

\* the last n elements of s
LastN(s, n) == IF Len(s) <= n THEN s ELSE SubSeq(s, Len(s) - n + 1, Len(s))

\* mutant: ascending order, the n oldest outcomes
RecentOutcomes_Oldest(a, n) ==
    LET s == SelectSeq(outcomes, LAMBDA o : SamePair(o, a))
    IN IF Len(s) <= n THEN s ELSE SubSeq(s, 1, n)

\* mutant: no .limit(n)
RecentOutcomes_NoLimit(a, n) == SelectSeq(outcomes, LAMBDA o : SamePair(o, a))

\* .where(studentId, competenceCode).orderBy(desc(attemptedAt)).limit(n)
RecentOutcomes(a, n) == LastN(SelectSeq(outcomes, LAMBDA o : SamePair(o, a)), n)

RECURSIVE CountCorrect(_)
CountCorrect(s) ==
    IF s = <<>> THEN 0
    ELSE (IF Head(s).isCorrect THEN 1 ELSE 0) + CountCorrect(Tail(s))

RECURSIVE SumQuality(_)
SumQuality(s) == IF s = <<>> THEN 0 ELSE Head(s).quality + SumQuality(Tail(s))

RECURSIVE SumTimeSpent(_)
SumTimeSpent(s) == IF s = <<>> THEN 0 ELSE Head(s).timeSpentSec + SumTimeSpent(Tail(s))

TotalAttemptsOf(w) == IF Len(w) = 0 THEN 1 ELSE Len(w)

\* mutant: the cap Math.min(10, ...) is left out
HintPenalty_NoCap(hintsUsed) == hintsUsed * 2

\* Math.min(10, hintsUsed * 2)
HintPenalty(hintsUsed) == Min(10, hintsUsed * 2)

\* mutant: the lower clamp Math.max(0, ...) is left out
MasteryPercentNum_NoFloor(successful, total, hintsUsed) ==
    Min(100 * total, 100 * successful - HintPenalty(hintsUsed) * total)

\* masteryPercent as a numerator over totalAttempts
MasteryPercentNum(successful, total, hintsUsed) ==
    Max(0, Min(100 * total, 100 * successful - HintPenalty(hintsUsed) * total))

\* mutant: || in place of && in the mastered test
MasteryLevelOf_Or(num, total, sumQ) ==
    IF num >= 90 * total \/ sumQ >= 3 * total THEN "mastered"
    ELSE IF num >= 50 * total THEN "in_progress"
    ELSE "not_started"

MasteryLevelOf(num, total, sumQ) ==
    IF num >= 90 * total /\ sumQ >= 3 * total THEN "mastered"
    ELSE IF num >= 50 * total THEN "in_progress"
    ELSE "not_started"

\* mutant: the percent is not looked at
NeedsReviewOf_QualityOnly(num, total, sumQ) == 2 * sumQ < 5 * total

\* mutant: both conditions required
NeedsReviewOf_And(num, total, sumQ) == num < 80 * total /\ 2 * sumQ < 5 * total

\* needsReview = masteryPercent < 80 || averageQuality < 2.5
NeedsReviewOf(num, total, sumQ) == num < 80 * total \/ 2 * sumQ < 5 * total

\* Math.round(((successful / total) * 100) * 100) / 100, in hundredths
AverageScoreOf(successful, total) == RoundDiv(successful * 10000, total)

\* a percentage numerator/total as stored in a DECIMAL(5,2) column, in hundredths
StoredPercent(num, total) == RoundDiv(num * 100, total)

(******************** SuperMemoService (SM-2 rule) *************************)
\* 100 * (0.1 - (5 - q) * (0.08 + (5 - q) * 0.02))
EasinessDelta(q) == 10 - (5 - q) * (8 + (5 - q) * 2)

calculateNextReview(card, quality, now) ==
    LET newEF == Max(130, card.easinessFactor + EasinessDelta(quality))
        rep == IF quality < 3 THEN 0 ELSE card.repetitionNumber + 1
        interval == IF quality < 3 THEN 1
                    ELSE IF rep = 1 THEN 1
                    ELSE IF rep = 2 THEN 6
                    ELSE RoundDiv(card.intervalDays * newEF, 100)
    IN [easinessFactor |-> newEF, repetitionNumber |-> rep, interval |-> interval,
        nextReviewDate |-> now + interval * DayTicks]

(***************************** state ***************************************)
NoAttempt == AttemptOf("", FALSE, 0, 0, <<>>)

NoResult == [level |-> "", percent |-> 0, averageQuality |-> 0,
             needsReview |-> FALSE,
             intervalDays |-> 0, repetitionNumber |-> 0,
             status |-> "", remediation |-> NULL]

IdleCall ==
    [pc |-> "idle", args |-> NoAttempt, tagIdx |-> 0, epExisting |-> NULL,
     totalAttempts |-> 0, successfulAttempts |-> 0, sumQuality |-> 0,
     totalTimeSpent |-> 0, percentNum |-> 0, masteryLevel |-> "",
     needsReview |-> FALSE, now |-> 0, existing |-> NULL, card |-> NULL,
     result |-> NoResult]

\* no query of the competence framework has been made
NoBlocked == [isBlocked |-> FALSE, blockingPrerequisites |-> <<>>,
              missingPrerequisites |-> <<>>]

NoSummary == [totalCompetences |-> 0, mastered |-> 0, inProgress |-> 0,
              notStarted |-> 0, blocked |-> 0, overallProgress |-> 0]

NoReply == [op |-> "", studentId |-> 0, code |-> "", niveau |-> "",
            prerequisites |-> <<>>, blocked |-> NoBlocked,
            recommendations |-> <<>>, competences |-> <<>>, summary |-> NoSummary,
            listing |-> <<>>, competence |-> NULL]

\* no getDueCards query has been made
NoQuery == [studentId |-> 0, limit |-> 0, now |-> 0, rows |-> <<>>]

Init ==
    /\ outcomes = <<>>
    /\ errorPatterns = {}
    /\ progress = {}
    /\ cards = {}
    /\ calls = [p \in Procs |-> IdleCall]
    /\ clock = 1
    /\ due = NoQuery
    /\ reply = NoReply

InFlight(p) == calls[p].pc \notin {"idle", "done"}

Goto(p, c) == calls' = [calls EXCEPT ![p] = c]

(********** ErrorPatternService.recordOutcome, first statement *************)
\* updateMastery is entered with attempt a; it runs up to the insert of the
\* Outcome row, which is the first statement of recordOutcome
updateMastery(p, a) ==
    /\ ~InFlight(p)
    /\ outcomes' = Append(outcomes,
           [id |-> Len(outcomes) + 1, studentId |-> a.studentId,
            exerciseId |-> a.exerciseId, competenceCode |-> a.competenceCode,
            isCorrect |-> a.isCorrect, hintsUsed |-> a.hintsUsed,
            timeSpentSec |-> a.timeSpentSec, quality |-> a.quality,
            errorTags |-> a.errorTags, attemptedAt |-> clock])
    /\ Goto(p, [IdleCall EXCEPT !.args = a, !.tagIdx = 1,
                 !.pc = IF Len(a.errorTags) > 0 THEN "selectErrorPattern"
                        ELSE "selectOutcomes"])
    /\ clock' = clock + 1
    /\ UNCHANGED <<errorPatterns, progress, cards, due, reply>>

\* rows of errorPatterns for (studentId, competenceCode, tag)
PatternRows(a, tag) == {e \in errorPatterns : SamePair(e, a) /\ e.tag = tag}

\* the select of the loop body: .limit(1) returns any one matching row
SelectErrorPattern(p) ==
    LET c == calls[p]
        rows == PatternRows(c.args, c.args.errorTags[c.tagIdx])
    IN /\ c.pc = "selectErrorPattern"
       /\ \/ /\ rows = {}
             /\ Goto(p, [c EXCEPT !.pc = "upsertErrorPattern", !.epExisting = NULL])
          \/ \E e \in rows :
                Goto(p, [c EXCEPT !.pc = "upsertErrorPattern", !.epExisting = Some(e)])
       /\ UNCHANGED <<outcomes, errorPatterns, progress, cards, clock, due, reply>>

\* the update or insert of the loop body, then the next tag or the window
UpsertErrorPattern(p) ==
    LET c == calls[p]
        a == c.args
        tag == a.errorTags[c.tagIdx]
        more == c.tagIdx < Len(a.errorTags)
    IN /\ c.pc = "upsertErrorPattern"
       /\ IF c.epExisting # NULL
          THEN LET prev == The(c.epExisting)
               IN errorPatterns' =
                    {IF e.id = prev.id
                     THEN [e EXCEPT !.occurrences = prev.occurrences + 1,
                                    !.lastSeenAt = clock]
                     ELSE e : e \in errorPatterns}
          ELSE errorPatterns' = errorPatterns \cup
                    {[id |-> Cardinality(errorPatterns) + 1,
                      studentId |-> a.studentId, competenceCode |-> a.competenceCode,
                      tag |-> tag, occurrences |-> 1, lastSeenAt |-> clock]}
       /\ Goto(p, [c EXCEPT !.epExisting = NULL,
                            !.tagIdx = IF more THEN c.tagIdx + 1 ELSE c.tagIdx,
                            !.pc = IF more THEN "selectErrorPattern"
                                   ELSE "selectOutcomes"])
       /\ UNCHANGED <<outcomes, progress, cards, clock, due, reply>>

(******************* MasteryService.updateMastery **************************)
\* the window select and the aggregates computed from it
SelectOutcomes(p) ==
    LET c == calls[p]
        a == c.args
        w == RecentOutcomes(a, WindowSize)
        total == TotalAttemptsOf(w)
        successful == CountCorrect(w)
        sumQ == SumQuality(w)
        num == MasteryPercentNum(successful, total, a.hintsUsed)
    IN /\ c.pc = "selectOutcomes"
       /\ Goto(p, [c EXCEPT !.pc = "selectProgress",
                            !.totalAttempts = total,
                            !.successfulAttempts = successful,
                            !.sumQuality = sumQ,
                            !.totalTimeSpent = SumTimeSpent(w),
                            !.percentNum = num,
                            !.masteryLevel = MasteryLevelOf(num, total, sumQ),
                            !.needsReview = NeedsReviewOf(num, total, sumQ),
                            !.now = clock])
       /\ UNCHANGED <<outcomes, errorPatterns, progress, cards, clock, due, reply>>

\* a mutant of ProgressRows: the rows of the learner, whatever the skill
ProgressRows_ByStudent(a) == {r \in progress : r.studentId = a.studentId}

ProgressRows(a) == {r \in progress : SamePair(r, a)}

\* existing = select from studentProgress; existing[0] is any matching row
SelectProgress(p) ==
    LET c == calls[p]
        rows == ProgressRows(c.args)
    IN /\ c.pc = "selectProgress"
       /\ \/ /\ rows = {}
             /\ Goto(p, [c EXCEPT !.pc = "writeProgress", !.existing = NULL])
          \/ \E r \in rows :
                Goto(p, [c EXCEPT !.pc = "writeProgress", !.existing = Some(r)])
       /\ UNCHANGED <<outcomes, errorPatterns, progress, cards, clock, due, reply>>

\* mutant: a mastered update stamps now, without "prev.masteredAt ||"
UpdatedMasteredAt_Overwrite(level, prevMasteredAt, now) ==
    IF level = "mastered" THEN Some(now) ELSE prevMasteredAt

\* mutant: the update branch copies prev.masteredAt in both cases
UpdatedMasteredAt_NeverSet(level, prevMasteredAt, now) == prevMasteredAt

\* masteredAt of the update branch
UpdatedMasteredAt(level, prevMasteredAt, now) ==
    IF level = "mastered"
    THEN (IF prevMasteredAt # NULL THEN prevMasteredAt ELSE Some(now))
    ELSE prevMasteredAt

\* masteredAt of the insert branch
InsertedMasteredAt(level, now) == IF level = "mastered" THEN Some(now) ELSE NULL

\* the aggregate columns both branches write
ProgressValues(c) ==
    [exerciseId |-> c.args.exerciseId,
     progressPercent |-> StoredPercent(c.percentNum, c.totalAttempts),
     masteryLevel |-> c.masteryLevel,
     totalAttempts |-> c.totalAttempts,
     successfulAttempts |-> c.successfulAttempts,
     averageScore |-> AverageScoreOf(c.successfulAttempts, c.totalAttempts),
     totalTimeSpent |-> c.totalTimeSpent,
     lastAttemptAt |-> c.now,
     needsReview |-> c.needsReview,
     updatedAt |-> c.now]

UpdatedProgressRow(r, c, prev) ==
    LET v == ProgressValues(c)
    IN [id |-> r.id, studentId |-> r.studentId, competenceCode |-> r.competenceCode,
        exerciseId |-> v.exerciseId, progressPercent |-> v.progressPercent,
        masteryLevel |-> v.masteryLevel, totalAttempts |-> v.totalAttempts,
        successfulAttempts |-> v.successfulAttempts, averageScore |-> v.averageScore,
        totalTimeSpent |-> v.totalTimeSpent, lastAttemptAt |-> v.lastAttemptAt,
        masteredAt |-> UpdatedMasteredAt(c.masteryLevel, prev.masteredAt, c.now),
        needsReview |-> v.needsReview, createdAt |-> r.createdAt,
        updatedAt |-> v.updatedAt]

InsertedProgressRow(c) ==
    LET v == ProgressValues(c)
    IN [id |-> Cardinality(progress) + 1, studentId |-> c.args.studentId,
        competenceCode |-> c.args.competenceCode,
        exerciseId |-> v.exerciseId, progressPercent |-> v.progressPercent,
        masteryLevel |-> v.masteryLevel, totalAttempts |-> v.totalAttempts,
        successfulAttempts |-> v.successfulAttempts, averageScore |-> v.averageScore,
        totalTimeSpent |-> v.totalTimeSpent, lastAttemptAt |-> v.lastAttemptAt,
        masteredAt |-> InsertedMasteredAt(c.masteryLevel, c.now),
        needsReview |-> v.needsReview, createdAt |-> c.now,
        updatedAt |-> v.updatedAt]

\* if (existing.length > 0) update ... where id = prev.id, else insert
WriteProgress(p) ==
    LET c == calls[p]
    IN /\ c.pc = "writeProgress"
       /\ IF c.existing # NULL
          THEN LET prev == The(c.existing)
               IN progress' = {IF r.id = prev.id THEN UpdatedProgressRow(r, c, prev)
                               ELSE r : r \in progress}
          ELSE progress' = progress \cup {InsertedProgressRow(c)}
       /\ Goto(p, [c EXCEPT !.pc = "selectCard"])
       /\ UNCHANGED <<outcomes, errorPatterns, cards, clock, due, reply>>

\* mutant: the lookup ignores the competenceCode
CardRows_ByStudent(a) == {k \in cards : k.studentId = a.studentId}

\* where studentId = and competenceCode =
CardRows(a) == {k \in cards : SamePair(k, a)}

\* card = (select from spacedRepetitionCards)[0]
SelectCard(p) ==
    LET c == calls[p]
        rows == CardRows(c.args)
    IN /\ c.pc = "selectCard"
       /\ \/ /\ rows = {}
             /\ Goto(p, [c EXCEPT !.pc = "createCard", !.card = NULL])
          \/ \E k \in rows :
                Goto(p, [c EXCEPT !.pc = "updateCardSchedule", !.card = Some(k)])
       /\ UNCHANGED <<outcomes, errorPatterns, progress, cards, clock, due, reply>>

(************************** ReviewQueueRepo ********************************)
\* the row createCard inserts and returns
NewCard(a, now) ==
    [id |-> Cardinality(cards) + 1, studentId |-> a.studentId,
     competenceCode |-> a.competenceCode, easinessFactor |-> 250,
     repetitionNumber |-> 0, intervalDays |-> 1, lastReviewAt |-> now,
     nextReviewAt |-> now + DayTicks, lastQuality |-> 0,
     createdAt |-> now, updatedAt |-> now]

\* if (!card) card = await ReviewQueueRepo.createCard(...)
CreateCard(p) ==
    LET c == calls[p]
        k == NewCard(c.args, clock)
    IN /\ c.pc = "createCard"
       /\ cards' = cards \cup {k}
       /\ Goto(p, [c EXCEPT !.pc = "updateCardSchedule", !.card = Some(k)])
       /\ UNCHANGED <<outcomes, errorPatterns, progress, clock, due, reply>>

\* mutant: repetitionNumber is not passed on to the row
ScheduledCard_KeepRepetition(k, sm, quality, now) ==
    [k EXCEPT !.nextReviewAt = sm.nextReviewDate,
              !.intervalDays = sm.interval,
              !.easinessFactor = sm.easinessFactor,
              !.lastQuality = quality,
              !.lastReviewAt = now,
              !.updatedAt = now]

\* mutant: intervalDays is not passed on to the row
ScheduledCard_KeepInterval(k, sm, quality, now) ==
    [k EXCEPT !.nextReviewAt = sm.nextReviewDate,
              !.repetitionNumber = sm.repetitionNumber,
              !.easinessFactor = sm.easinessFactor,
              !.lastQuality = quality,
              !.lastReviewAt = now,
              !.updatedAt = now]

\* mutant: intervalDays passed where easinessFactor is expected
ScheduledCard_Swapped(k, sm, quality, now) ==
    [k EXCEPT !.nextReviewAt = sm.nextReviewDate,
              !.intervalDays = sm.interval,
              !.repetitionNumber = sm.repetitionNumber,
              !.easinessFactor = 100 * sm.interval,
              !.lastQuality = quality,
              !.lastReviewAt = now,
              !.updatedAt = now]

\* a mutant of ScheduledCard: the card is due at once
ScheduledCard_DueNow(k, sm, quality, now) ==
    [k EXCEPT !.nextReviewAt = now,
              !.intervalDays = sm.interval,
              !.repetitionNumber = sm.repetitionNumber,
              !.easinessFactor = sm.easinessFactor,
              !.lastQuality = quality,
              !.lastReviewAt = now,
              !.updatedAt = now]

\* the columns updateCardSchedule sets on the row of that id
ScheduledCard(k, sm, quality, now) ==
    [k EXCEPT !.nextReviewAt = sm.nextReviewDate,
              !.intervalDays = sm.interval,
              !.repetitionNumber = sm.repetitionNumber,
              !.easinessFactor = sm.easinessFactor,
              !.lastQuality = quality,
              !.lastReviewAt = now,
              !.updatedAt = now]

\* smResult = calculateNextReview(card, quality), computed from the card as
\* it was read; then update ... where id = card.id
UpdateCardSchedule(p) ==
    LET c == calls[p]
        card == The(c.card)
        sm == calculateNextReview(card, c.args.quality, clock)
    IN /\ c.pc = "updateCardSchedule"
       /\ cards' = {IF k.id = card.id THEN ScheduledCard(k, sm, c.args.quality, clock)
                    ELSE k : k \in cards}
       /\ Goto(p, [c EXCEPT !.pc = "isBlocked",
                            !.result = [c.result EXCEPT
                                !.intervalDays = sm.interval,
                                !.repetitionNumber = sm.repetitionNumber]])
       /\ UNCHANGED <<outcomes, errorPatterns, progress, clock, due, reply>>

(************************ PrerequisiteService ******************************)
\* a mutant of IsBlockedNow: the fails are counted in the mastery window
IsBlockedNow_MasteryWindow(a) ==
    LET w == RecentOutcomes(a, WindowSize)
    IN Len(w) - CountCorrect(w) >= BlockFails

\* fails >= 3 among the 5 most recent outcomes of the pair
IsBlockedNow(a) ==
    LET w == RecentOutcomes(a, BlockWindow)
    IN Len(w) - CountCorrect(w) >= BlockFails

\* the mastery part of the value updateMastery returns
MasteryResult(c, status, remediation) ==
    [c.result EXCEPT !.level = c.masteryLevel,
                     !.percent = StoredPercent(c.percentNum, c.totalAttempts),
                     !.averageQuality = RoundDiv(c.sumQuality * 100, c.totalAttempts),
                     !.needsReview = c.needsReview,
                     !.status = status,
                     !.remediation = remediation]

\* blocked = await PrerequisiteService.isBlocked(...); when not blocked the
\* handler returns with remediation null
IsBlocked(p) ==
    LET c == calls[p]
    IN /\ c.pc = "isBlocked"
       /\ IF IsBlockedNow(c.args)
          THEN Goto(p, [c EXCEPT !.pc = "getRemediation"])
          ELSE Goto(p, [c EXCEPT !.pc = "done",
                                 !.result = MasteryResult(c, "progressing", NULL)])
       /\ UNCHANGED <<outcomes, errorPatterns, progress, cards, clock, due, reply>>

\* getRemediation asks isBlocked again and returns null when it says no
GetRemediation(p) ==
    LET c == calls[p]
    IN /\ c.pc = "getRemediation"
       /\ IF IsBlockedNow(c.args)
          THEN Goto(p, [c EXCEPT !.pc = "getPrerequisites"])
          ELSE Goto(p, [c EXCEPT !.pc = "done",
                                 !.result = MasteryResult(c, "blocked", NULL)])
       /\ UNCHANGED <<outcomes, errorPatterns, progress, cards, clock, due, reply>>

\* one 'Review prerequisite' action per row of competencePrerequisites
RemediationOf(code) ==
    [i \in DOMAIN PrerequisiteRows(code) |->
        [action |-> "Review prerequisite",
         prerequisiteCode |-> PrerequisiteRows(code)[i].prerequisiteCode,
         weight |-> PrerequisiteRows(code)[i].weight]]

\* the select of getPrerequisites, mapped; the handler returns
GetPrerequisites(p) ==
    LET c == calls[p]
    IN /\ c.pc = "getPrerequisites"
       /\ Goto(p, [c EXCEPT !.pc = "done",
                            !.result = MasteryResult(c, "blocked",
                                          Some(RemediationOf(c.args.competenceCode)))])
       /\ UNCHANGED <<outcomes, errorPatterns, progress, cards, clock, due, reply>>

(*************************** specifications ********************************)
Step(p) ==
    \/ SelectErrorPattern(p)
    \/ UpsertErrorPattern(p)
    \/ SelectOutcomes(p)
    \/ SelectProgress(p)
    \/ WriteProgress(p)
    \/ SelectCard(p)
    \/ CreateCard(p)
    \/ UpdateCardSchedule(p)
    \/ IsBlocked(p)
    \/ GetRemediation(p)
    \/ GetPrerequisites(p)

\* a request arrives while others may be in flight; of two free slots the
\* lower one takes it
Request(p, a) ==
    /\ Len(outcomes) < MaxCalls
    /\ \A q \in Procs : q < p => InFlight(q)
    /\ updateMastery(p, a)

Next == \E p \in Procs : (\E a \in ConcAttempts : Request(p, a)) \/ Step(p)

\* concurrent requests for one pair
Spec == Init /\ [][Next]_vars

\* a request arrives only when no call is in flight
SeqRequest(p, a) ==
    /\ Len(outcomes) < MaxSeqCalls
    /\ \A q \in Procs : ~InFlight(q)
    /\ p = 1
    /\ updateMastery(p, a)

NextSeq == \E p \in Procs : (\E a \in SeqAttempts : SeqRequest(p, a)) \/ Step(p)

\* calls run one after another
SpecSeq == Init /\ [][NextSeq]_vars

NextAny == \E p \in Procs : (\E a \in AnyAttempts : SeqRequest(p, a)) \/ Step(p)

\* calls run one after another, with any numbers as arguments
SpecAny == Init /\ [][NextAny]_vars

(******************************* claims ************************************)
Quiescent == \A p \in Procs : ~InFlight(p)

\* the aggregate columns of row r are those of the pair's present window,
\* with the hint penalty of one of the window's attempts
MatchesWindow(r) ==
    LET w == RecentOutcomes(r, WindowSize)
        total == TotalAttemptsOf(w)
        successful == CountCorrect(w)
    IN /\ r.totalAttempts = total
       /\ r.successfulAttempts = successful
       /\ r.totalTimeSpent = SumTimeSpent(w)
       /\ r.averageScore = AverageScoreOf(successful, total)
       /\ \E i \in DOMAIN w :
            r.progressPercent =
                StoredPercent(MasteryPercentNum(successful, total, w[i].hintsUsed), total)

\* C1: once every call on a pair has completed, the pair's Progress row
\* holds the aggregate of the final outcome window, whatever the
\* interleaving of the calls' steps was.
C1_ProgressFromFinalWindow ==
    Quiescent =>
        \A i \in DOMAIN outcomes :
            \E r \in ProgressRows(outcomes[i]) : MatchesWindow(r)

\* C2: at most one Progress row and at most one ReviewCard row per pair in
\* every state, and exactly one Progress row for the pair of a completed call.
C2_OneRowPerPair ==
    /\ \A i \in DOMAIN outcomes :
        /\ Cardinality(ProgressRows(outcomes[i])) <= 1
        /\ Cardinality(CardRows(outcomes[i])) <= 1
    /\ \A p \in Procs :
        calls[p].pc = "done" => Cardinality(ProgressRows(calls[p].args)) = 1

\* the scheduling state of a card
Schedule(k) == <<k.easinessFactor, k.repetitionNumber, k.intervalDays>>

\* the card after one scheduling with quality q
Scheduled(k, q) ==
    LET sm == calculateNextReview(k, q, 0)
    IN [k EXCEPT !.easinessFactor = sm.easinessFactor,
                 !.repetitionNumber = sm.repetitionNumber,
                 !.intervalDays = sm.interval]

\* the cards reached from k by scheduling the outcomes numbered in S, one
\* after the other, in every order
RECURSIVE SerialSchedules(_, _)
SerialSchedules(k, S) ==
    IF S = {} THEN {Schedule(k)}
    ELSE UNION {SerialSchedules(Scheduled(k, outcomes[i].quality), S \ {i}) : i \in S}

\* C3: once the calls on a pair have completed, its ReviewCard is the fresh
\* card scheduled once per recorded outcome, in some order (two concurrent
\* calls of quality >= 3 on a fresh pair end with repetitionNumber 2).
C3_SchedulingSerializable ==
    (Quiescent /\ outcomes # <<>>) =>
        \A k \in cards :
            Schedule(k) \in SerialSchedules(NewCard(k, 0),
                                {i \in DOMAIN outcomes : SamePair(outcomes[i], k)})

\* C4: in sequential runs a Progress row's masteredAt, once non-null, keeps
\* its value through every later step.
C4_MasteredAtSticky ==
    [][\A r \in progress :
         r.masteredAt # NULL =>
            \E r2 \in progress' : r2.id = r.id /\ r2.masteredAt = r.masteredAt]_vars

\* a row that was mastered, regressed, and still carries its masteredAt
C4_Witness ==
    \E r \in progress :
        /\ r.masteredAt # NULL
        /\ r.masteryLevel # "mastered"
        /\ r.updatedAt > r.createdAt

\* the fields of an attempt that make it "the same attempt"
SameAttempt(o1, o2) ==
    /\ SamePair(o1, o2)
    /\ o1.exerciseId = o2.exerciseId
    /\ o1.isCorrect = o2.isCorrect
    /\ o1.hintsUsed = o2.hintsUsed
    /\ o1.timeSpentSec = o2.timeSpentSec
    /\ o1.quality = o2.quality
    /\ o1.errorTags = o2.errorTags

SameAggregates(r1, r2) ==
    /\ r1.progressPercent = r2.progressPercent
    /\ r1.masteryLevel = r2.masteryLevel
    /\ r1.totalAttempts = r2.totalAttempts
    /\ r1.successfulAttempts = r2.successfulAttempts
    /\ r1.totalTimeSpent = r2.totalTimeSpent
    /\ r1.needsReview = r2.needsReview

\* the running call repeats the attempt of the call before it
IsReplay ==
    /\ Len(outcomes) >= 2
    /\ SameAttempt(outcomes[Len(outcomes)], outcomes[Len(outcomes) - 1])

\* C5: in sequential runs, the Progress write of a call that replays the
\* previous call's attempt leaves the row's aggregate fields as they were.
C5_ReplayIdempotent ==
    [][(IsReplay /\ progress' # progress) =>
         \A r \in progress :
            \E r2 \in progress' : r2.id = r.id /\ SameAggregates(r, r2)]_vars

\* C6: every Progress row has 0 <= successfulAttempts <= totalAttempts and
\* 0 <= progressPercent <= 100.
C6_ProgressInRange ==
    \A r \in progress :
        /\ 0 <= r.successfulAttempts
        /\ r.successfulAttempts <= r.totalAttempts
        /\ 0 <= r.progressPercent
        /\ r.progressPercent <= 10000

\* a row written for a wrong answer given with 6 hints: the penalty would
\* take the percentage below 0
C6_Witness ==
    \E r \in progress :
        /\ r.successfulAttempts = 0
        /\ r.progressPercent = 0
        /\ \E p \in Procs : calls[p].pc = "done" /\ calls[p].args.hintsUsed = 6

\* C7: a Progress row written as mastered carries progressPercent >= 90, and
\* the mean quality of the window it was computed from is >= 3.
C7_MasteredThresholds ==
    [][\A r \in progress' \ progress :
         r.masteryLevel = "mastered" =>
            /\ r.progressPercent >= 9000
            /\ SumQuality(RecentOutcomes(r, WindowSize))
                 >= 3 * Len(RecentOutcomes(r, WindowSize))]_vars

\* a row written as mastered exactly at the 90 percent threshold
C7_Witness ==
    \E r \in progress : r.masteryLevel = "mastered" /\ r.progressPercent = 9000

\* C8: every ReviewCard has easinessFactor >= 1.3.
C8_EasinessFloor == \A k \in cards : k.easinessFactor >= 130

\* a card at the floor after consecutive quality 0 outcomes
C8_Witness ==
    /\ Len(outcomes) >= 2
    /\ \A i \in DOMAIN outcomes : outcomes[i].quality = 0
    /\ Quiescent
    /\ \E k \in cards : k.easinessFactor = 130 /\ k.lastQuality = 0

\* the row of progress with the id of r, if there is one
OldRow(r) == {o \in progress : o.id = r.id}

\* C9: in sequential runs every mastered Progress row has a masteredAt, and
\* a write sets masteredAt to the current time exactly when the row enters
\* mastered for the first time (inserted as mastered, or updated to mastered
\* with no masteredAt before); otherwise it leaves masteredAt as it was.
C9_MasteredAtFirstTransition ==
    /\ [](\A r \in progress : r.masteryLevel = "mastered" => r.masteredAt # NULL)
    /\ [][\A r \in progress' \ progress :
            LET first == /\ r.masteryLevel = "mastered"
                         /\ \A o \in OldRow(r) : o.masteredAt = NULL
            IN IF first THEN r.masteredAt = Some(clock)
               ELSE /\ OldRow(r) = {} => r.masteredAt = NULL
                    /\ \A o \in OldRow(r) : r.masteredAt = o.masteredAt]_vars

\* a row that entered mastered by an update, after its insertion
C9_Witness ==
    \E r \in progress :
        /\ r.masteryLevel = "mastered"
        /\ r.masteredAt # NULL
        /\ \A t \in r.masteredAt : t > r.createdAt

\* C10: no step of a call whose attempt has a quality outside 0..5, or a
\* negative hintsUsed or timeSpentSec, writes to a table.
C10_InvalidAttemptWritesNothing ==
    [][(\E p \in Procs : calls'[p] # calls[p] /\ ~ValidAttempt(calls'[p].args))
         => UNCHANGED <<outcomes, errorPatterns, progress, cards>>]_vars

(********************* claims on codes and reporting ***********************)
\* codes for which CompetenceFrameworkService.getCompetenceByCode finds a skill
CurriculumCodes == {"CE2.FR.L.1.1", "CE2.FR.L.1.2"}

KnownCode(code) == code \in CurriculumCodes

\* attempts on a skill of the curriculum and on a code that names no skill
CodeAttempts ==
    {AttemptOf(c, ok, 0, IF ok THEN 4 ELSE 2, TagsOf(ok)) :
        c \in {"CE2.FR.L.1.1", "CE2.ZZ.9.9"}, ok \in BOOLEAN}

NextCodes == \E p \in Procs : (\E a \in CodeAttempts : SeqRequest(p, a)) \/ Step(p)

\* calls run one after another, on known and unknown codes
SpecCodes == Init /\ [][NextCodes]_vars

\* C11: no step of a call whose competenceCode names no skill of the
\* curriculum writes to a table.
C11_UnknownCodeWritesNothing ==
    [][(\E p \in Procs :
            calls'[p] # calls[p] /\ ~KnownCode(calls'[p].args.competenceCode))
         => UNCHANGED <<outcomes, errorPatterns, progress, cards>>]_vars

\* the entry getLearningPath builds for a skill that has Progress row r
CompetenceProgressOf(r) ==
    [competenceCode |-> r.competenceCode,
     progressPercent |-> r.progressPercent,
     masteryLevel |-> r.masteryLevel,
     totalAttempts |-> r.totalAttempts,
     successfulAttempts |-> r.successfulAttempts,
     averageQuality |-> r.averageScore,
     needsReview |-> r.needsReview,
     lastAttemptAt |-> r.lastAttemptAt,
     masteredAt |-> r.masteredAt]

\* the mean quality of a window, in hundredths
MeanQuality(w) == RoundDiv(100 * SumQuality(w), TotalAttemptsOf(w))

\* C15: once a call has completed, the averageQuality that getLearningPath
\* reports for the pair is the mean quality of the pair's outcome window.
C15_ReportedAverageQuality ==
    Quiescent =>
        \A r \in progress :
            CompetenceProgressOf(r).averageQuality
                = MeanQuality(RecentOutcomes(r, WindowSize))

\* the recorded outcomes of row e's pair that carry its tag
TaggedOutcomes(e) ==
    {i \in DOMAIN outcomes :
        /\ SamePair(outcomes[i], e)
        /\ \E j \in DOMAIN outcomes[i].errorTags : outcomes[i].errorTags[j] = e.tag}

\* C20: once the calls have completed, every (studentId, competenceCode,
\* tag) that occurred has exactly one ErrorPattern row, and its occurrences
\* is the number of recorded outcomes carrying the tag.
C20_ErrorPatternCountersExact ==
    Quiescent =>
        /\ \A i \in DOMAIN outcomes : \A j \in DOMAIN outcomes[i].errorTags :
              Cardinality(PatternRows(outcomes[i], outcomes[i].errorTags[j])) = 1
        /\ \A e \in errorPatterns : e.occurrences = Cardinality(TaggedOutcomes(e))

(********************* the review queue, several pairs *********************)
\* calls started in one behaviour of the review-queue specification
MaxDueCalls == 3
\* days the clock is advanced in one behaviour of that specification
MaxDays == 2
\* getDueCards(studentId, limit = 50)
DefaultLimit == 50

AttemptBy(s, c, ok) ==
    [AttemptOf(c, ok, 0, IF ok THEN 4 ELSE 2, TagsOf(ok)) EXCEPT !.studentId = s]

\* learner 1 wrong on one skill and right on another, learner 2 right on
\* the first
DueAttempts ==
    {AttemptBy(1, "CE2.FR.L.1.1", FALSE), AttemptBy(1, "CE2.FR.L.1.2", TRUE),
     AttemptBy(2, "CE2.FR.L.1.1", TRUE)}

\* mutant: lte in place of lt
DueRows_Lte(s, now) ==
    {k \in cards : k.studentId = s /\ k.nextReviewAt <= now}

\* where studentId = s and nextReviewAt < now
DueRows(s, now) ==
    {k \in cards : k.studentId = s /\ k.nextReviewAt < now}

\* orderBy nextReviewAt: the rows of S in ascending nextReviewAt, rows with
\* equal nextReviewAt in any order
OrderedByNextReview(S) ==
    {q \in [1..Cardinality(S) -> S] :
        /\ \A i, j \in 1..Cardinality(S) : i # j => q[i] # q[j]
        /\ \A i, j \in 1..Cardinality(S) :
              i < j => q[i].nextReviewAt <= q[j].nextReviewAt}

\* limit n
Take(q, n) == SubSeq(q, 1, Min(n, Len(q)))

\* ReviewQueueRepo.getDueCards(s, limit): one select, now = new Date()
getDueCards(s, limit) ==
    /\ due = NoQuery
    /\ \A p \in Procs : ~InFlight(p)
    /\ \E q \in OrderedByNextReview(DueRows(s, clock)) :
          due' = [studentId |-> s, limit |-> limit, now |-> clock,
                  rows |-> Take(q, limit)]
    /\ UNCHANGED <<outcomes, errorPatterns, progress, cards, calls, clock, reply>>

\* a day passes between two operations
AdvanceTime ==
    /\ \A p \in Procs : ~InFlight(p)
    /\ clock < MaxDays * DayTicks
    /\ clock' = clock + DayTicks
    /\ UNCHANGED <<outcomes, errorPatterns, progress, cards, calls, due, reply>>

DueRequest(p, a) ==
    /\ Len(outcomes) < MaxDueCalls
    /\ \A q \in Procs : ~InFlight(q)
    /\ p = 1
    /\ updateMastery(p, a)

NextDue ==
    \/ \E p \in Procs : (\E a \in DueAttempts : DueRequest(p, a)) \/ Step(p)
    \/ \E s \in {1, 2}, limit \in {1, DefaultLimit} : getDueCards(s, limit)
    \/ AdvanceTime

\* calls on several pairs one after another, days passing, one queue query
SpecDue == Init /\ [][NextDue]_vars

\* C19: a getDueCards(s, limit) at time now returns only cards of s with
\* nextReviewAt < now, in ascending nextReviewAt order, min(limit, number of
\* such cards) of them, and no card left out is earlier than a returned one.
C19_DueCards ==
    [][due' # due =>
        LET r == due'.rows
            D == {k \in cards : k.studentId = due'.studentId
                                  /\ k.nextReviewAt < clock}
            R == {r[i] : i \in DOMAIN r}
        IN /\ due'.now = clock
           /\ R \subseteq D
           /\ Cardinality(R) = Len(r)
           /\ Len(r) = Min(due'.limit, Cardinality(D))
           /\ \A i, j \in DOMAIN r : i < j => r[i].nextReviewAt <= r[j].nextReviewAt
           /\ \A k \in D \ R : \A i \in DOMAIN r : r[i].nextReviewAt <= k.nextReviewAt]_vars

\* a query with limit 1 answered with one card while another card of the
\* learner, written before the query, was due as well
C19_Witness ==
    /\ due.limit = 1
    /\ Len(due.rows) = 1
    /\ \E k \in cards : k.studentId = due.studentId /\ k # due.rows[1]
                         /\ k.nextReviewAt < due.now /\ k.updatedAt < due.now

\* a query made at the very instant a card of the learner falls due
C19_WitnessBoundary ==
    /\ due # NoQuery
    /\ \E k \in cards : k.studentId = due.studentId /\ k.nextReviewAt = due.now
                         /\ k.updatedAt < due.now

\* the cards of the pair of x
PairCards(x) ==
    {k \in cards : k.studentId = x.studentId /\ k.competenceCode = x.competenceCode}

\* C18: a card exists only for a pair that has had an updateMastery, and at
\* most one per pair; a call past its card steps has the card of its pair; a
\* card is inserted only when the pair has none, with easinessFactor 2.5,
\* repetitionNumber 0, intervalDays 1 and nextReviewAt = now + 1 day, and the
\* call goes on to schedule that very card; a call that finds the pair's
\* card schedules it and inserts none.
C18_LazyCard ==
    /\ [](\A k \in cards : \E i \in DOMAIN outcomes :
              outcomes[i].studentId = k.studentId
                  /\ outcomes[i].competenceCode = k.competenceCode)
    /\ [](\A k \in cards : PairCards(k) = {k})
    /\ [](\A p \in Procs :
              calls[p].pc \in {"isBlocked", "getRemediation", "getPrerequisites", "done"}
                  => /\ PairCards(calls[p].args) # {}
                     /\ \A k \in PairCards(calls[p].args) :
                           k.lastQuality = calls[p].args.quality)
    /\ [][\A p \in Procs :
            /\ (calls[p].pc = "createCard" /\ calls'[p] # calls[p]) =>
                  /\ PairCards(calls[p].args) = {}
                  /\ \E k \in cards' \ cards :
                        /\ cards' = cards \cup {k}
                        /\ k.studentId = calls[p].args.studentId
                        /\ k.competenceCode = calls[p].args.competenceCode
                        /\ k.easinessFactor = 250
                        /\ k.repetitionNumber = 0
                        /\ k.intervalDays = 1
                        /\ k.nextReviewAt = clock + DayTicks
                        /\ calls'[p].pc = "updateCardSchedule"
                        /\ calls'[p].card = {k}
            /\ (calls[p].pc = "updateCardSchedule" /\ calls'[p] # calls[p]) =>
                  /\ calls[p].card = PairCards(calls[p].args)
                  /\ Cardinality(cards') = Cardinality(cards)
            /\ (calls[p].pc # "createCard" /\ calls'[p] # calls[p]) =>
                  Cardinality(cards') = Cardinality(cards)]_vars

\* learner 1 has a card for each of two skills and the second call on one of
\* them has completed on the card the first call created
C18_Witness ==
    /\ calls[1].pc = "done"
    /\ Cardinality({k \in cards : k.studentId = 1}) = 2
    /\ Cardinality({i \in DOMAIN outcomes : SamePair(outcomes[i], calls[1].args)}) = 2
    /\ \E k \in PairCards(calls[1].args) : k.createdAt < k.updatedAt

(****************** a recorded session, then free calls ********************)
\* calls started after the recorded session in one behaviour
MaxHistCalls == 5

HistAttempt(ok, q, h) == AttemptOf("CE2.FR.L.1.1", ok, h, q, TagsOf(ok))

\* 19 attempts without hints: the 5th and the 15th wrong with quality 2, the
\* first four right with quality 5, the others right with quality 4
Session19 ==
    [i \in 1..19 |->
        IF i \in {5, 15} THEN HistAttempt(FALSE, 2, 0)
        ELSE HistAttempt(TRUE, IF i <= 4 THEN 5 ELSE 4, 0)]

\* a behaviour starts with one of these sessions
Sessions == {<<>>, Session19}

\* the attempts a client sends after the session
HistAttempts ==
    {HistAttempt(TRUE, 4, 0), HistAttempt(TRUE, 3, 6), HistAttempt(FALSE, 2, 1),
     HistAttempt(TRUE, 5, 0), HistAttempt(TRUE, 0, 0)}

\* the arguments outcome row o was recorded from
AttemptOfRow(o) ==
    [studentId |-> o.studentId, exerciseId |-> o.exerciseId,
     competenceCode |-> o.competenceCode, isCorrect |-> o.isCorrect,
     hintsUsed |-> o.hintsUsed, timeSpentSec |-> o.timeSpentSec,
     quality |-> o.quality, errorTags |-> o.errorTags]

\* the calls so far are the first calls of session s
Following(s) ==
    /\ Len(outcomes) < Len(s)
    /\ \A i \in DOMAIN outcomes : AttemptOfRow(outcomes[i]) = s[i]

\* session s has been played in full
Followed(s) ==
    /\ Len(outcomes) >= Len(s)
    /\ \A i \in DOMAIN s : AttemptOfRow(outcomes[i]) = s[i]

HistRequest(p, a) ==
    /\ \A q \in Procs : ~InFlight(q)
    /\ p = 1
    /\ \E s \in Sessions :
          \/ Following(s) /\ a = s[Len(outcomes) + 1]
          \/ Followed(s) /\ Len(outcomes) < Len(s) + MaxHistCalls /\ a \in HistAttempts
    /\ updateMastery(p, a)

NextHist ==
    \E p \in Procs :
        \/ \E a \in HistAttempts \cup {Session19[i] : i \in DOMAIN Session19} :
              HistRequest(p, a)
        \/ Step(p)

\* calls run one after another: a recorded session, then free attempts
SpecHist == Init /\ [][NextHist]_vars

\* the outcomes of the pair of x, oldest first
PairOutcomes(x) ==
    SelectSeq(outcomes, LAMBDA o : o.studentId = x.studentId
                                     /\ o.competenceCode = x.competenceCode)

\* the n newest outcomes of the pair of x
Newest(x, n) ==
    LET s == PairOutcomes(x)
    IN SubSeq(s, Max(1, Len(s) - n + 1), Len(s))

NumCorrect(w) == Cardinality({i \in DOMAIN w : w[i].isCorrect})

\* C12: in the snapshot a completed call returns, level is mastered iff
\* percent >= 90 and averageQuality >= 3, else in_progress iff percent >= 50,
\* else not_started, and needsReview is percent < 80 or averageQuality < 2.5;
\* a window of 20 outcomes, 18 of them correct, of average quality 4, with no
\* hints on the attempt, gives percent 90, mastered, needsReview false.
C12_LevelAndNeedsReview ==
    \A p \in Procs :
        calls[p].pc = "done" =>
            LET r == calls[p].result
                w == Newest(calls[p].args, 20)
            IN /\ r.level = IF r.percent >= 9000 /\ r.averageQuality >= 300
                            THEN "mastered"
                            ELSE IF r.percent >= 5000 THEN "in_progress"
                            ELSE "not_started"
               /\ r.needsReview = (r.percent < 8000 \/ r.averageQuality < 250)
               /\ (/\ Len(w) = 20
                   /\ NumCorrect(w) = 18
                   /\ r.averageQuality = 400
                   /\ calls[p].args.hintsUsed = 0)
                     => /\ r.percent = 9000
                        /\ r.level = "mastered"
                        /\ r.needsReview = FALSE

\* a completed call whose window is the 20 outcomes of Scenario A
C12_Witness ==
    /\ calls[1].pc = "done"
    /\ Len(Newest(calls[1].args, 20)) = 20
    /\ NumCorrect(Newest(calls[1].args, 20)) = 18
    /\ calls[1].result.averageQuality = 400
    /\ calls[1].args.hintsUsed = 0
    /\ calls[1].result.level = "mastered"

\* C13: the percent a completed call returns and stores is
\* clamp(100 * successfulAttempts / totalAttempts - min(10, 2 * h), 0, 100)
\* over the window of the pair, h being the hintsUsed of this attempt alone,
\* so it is never more than 10 points below the success rate.
C13_PercentFormula ==
    \A p \in Procs :
        calls[p].pc = "done" =>
            LET r == calls[p].result
                w == Newest(calls[p].args, 20)
                s == NumCorrect(w)
                t == Len(w)
                h == calls[p].args.hintsUsed
                penalty == IF 2 * h < 10 THEN 2 * h ELSE 10
                raw == 10000 * s - 100 * penalty * t
                clamped == IF raw < 0 THEN 0
                           ELSE IF raw > 10000 * t THEN 10000 * t ELSE raw
            IN /\ r.percent = RoundDiv(clamped, t)
               /\ RoundDiv(10000 * s, t) - r.percent <= 1000
               /\ \A row \in progress :
                     SamePair(row, calls[p].args) => row.progressPercent = r.percent

\* a completed attempt without hints whose window holds an older outcome
\* with 6 hints and a wrong one: no penalty is applied
C13_Witness ==
    /\ calls[1].pc = "done"
    /\ calls[1].args.hintsUsed = 0
    /\ LET w == Newest(calls[1].args, 20)
       IN /\ \E i \in DOMAIN w : w[i].hintsUsed = 6
          /\ NumCorrect(w) < Len(w)
          /\ calls[1].result.percent = RoundDiv(10000 * NumCorrect(w), Len(w))

\* C14: every Progress row has 1 <= totalAttempts <= 20, and when a call has
\* completed, the row of its pair holds the aggregates of the 20 newest
\* outcomes of the pair and of nothing older: their number, the number of
\* correct ones, the sum of their timeSpentSec, and the percent and level
\* that follow from them.
C14_WindowOfTwenty ==
    /\ \A row \in progress : row.totalAttempts >= 1 /\ row.totalAttempts <= 20
    /\ \A p \in Procs :
          calls[p].pc = "done" =>
              \A row \in progress :
                  SamePair(row, calls[p].args) =>
                      LET w == Newest(row, 20)
                          s == NumCorrect(w)
                          t == Len(w)
                          h == calls[p].args.hintsUsed
                          pct == Max(0, 100 * s - Min(10, 2 * h) * t)
                      IN /\ row.totalAttempts = t
                         /\ row.successfulAttempts = s
                         /\ row.totalTimeSpent = SumTimeSpent(w)
                         /\ row.progressPercent = RoundDiv(100 * pct, t)
                         /\ row.masteryLevel =
                               IF pct >= 90 * t /\ SumQuality(w) >= 3 * t
                               THEN "mastered"
                               ELSE IF pct >= 50 * t THEN "in_progress"
                               ELSE "not_started"

\* a completed call on a pair with more than 20 outcomes, where counting the
\* older ones too would give another number of correct attempts
C14_Witness ==
    /\ calls[1].pc = "done"
    /\ Len(PairOutcomes(calls[1].args)) > 20
    /\ NumCorrect(PairOutcomes(calls[1].args)) # NumCorrect(Newest(calls[1].args, 20))
    /\ \E row \in progress : row.totalAttempts = 20

\* the card of the pair of x in table T (there is one)
CardIn(T, x) ==
    CHOOSE k \in T : k.studentId = x.studentId /\ k.competenceCode = x.competenceCode

\* every outcome of the pair of x has quality >= 3
AllGood(x) ==
    \A i \in DOMAIN PairOutcomes(x) : PairOutcomes(x)[i].quality >= 3

\* C16: the scheduling step of a call with quality < 3 leaves the card with
\* repetitionNumber 0 and intervalDays 1, and one with quality >= 3 adds 1 to
\* repetitionNumber; after a fresh pair's first call with quality < 3 the
\* card has repetitionNumber 0, intervalDays 1 and nextReviewAt one day
\* ahead, and after n calls of quality >= 3 on a fresh pair it has
\* repetitionNumber n.
C16_RepetitionRule ==
    /\ [][\A p \in Procs :
            (calls[p].pc = "updateCardSchedule" /\ calls'[p] # calls[p]) =>
                LET a == calls[p].args
                    old == CardIn(cards, a)
                    new == CardIn(cards', a)
                IN /\ a.quality < 3 =>
                          new.repetitionNumber = 0 /\ new.intervalDays = 1
                   /\ a.quality >= 3 =>
                          new.repetitionNumber = old.repetitionNumber + 1
                   /\ calls'[p].result.repetitionNumber = new.repetitionNumber]_vars
    /\ [](\A p \in Procs :
            calls[p].pc = "done" =>
                LET a == calls[p].args
                    k == CardIn(cards, a)
                IN /\ (Len(PairOutcomes(a)) = 1 /\ a.quality < 3) =>
                          /\ k.repetitionNumber = 0
                          /\ k.intervalDays = 1
                          /\ k.nextReviewAt = clock + DayTicks
                   /\ AllGood(a) => k.repetitionNumber = Len(PairOutcomes(a)))

\* five calls of quality >= 3 on a fresh pair have completed
C16_Witness ==
    /\ calls[1].pc = "done"
    /\ Len(PairOutcomes(calls[1].args)) = 5
    /\ AllGood(calls[1].args)
    /\ CardIn(cards, calls[1].args).repetitionNumber = 5

\* C17: after a scheduling step with quality >= 3, intervalDays is 1 if the
\* new repetitionNumber is 1, 6 if it is 2, and round(previous intervalDays
\* x new easinessFactor) if it is greater, and it is not below the previous
\* intervalDays; after one call of quality >= 3 on a fresh pair it is 1 and
\* after two it is 6.
C17_IntervalGrowth ==
    /\ [][\A p \in Procs :
            (/\ calls[p].pc = "updateCardSchedule"
             /\ calls'[p] # calls[p]
             /\ calls[p].args.quality >= 3) =>
                LET a == calls[p].args
                    old == CardIn(cards, a)
                    new == CardIn(cards', a)
                IN /\ new.repetitionNumber = 1 => new.intervalDays = 1
                   /\ new.repetitionNumber = 2 => new.intervalDays = 6
                   /\ new.repetitionNumber > 2 =>
                          new.intervalDays =
                              RoundDiv(old.intervalDays * new.easinessFactor, 100)
                   /\ new.intervalDays >= old.intervalDays
                   /\ calls'[p].result.intervalDays = new.intervalDays]_vars
    /\ [](\A p \in Procs :
            (calls[p].pc = "done" /\ AllGood(calls[p].args)) =>
                LET n == Len(PairOutcomes(calls[p].args))
                    k == CardIn(cards, calls[p].args)
                IN /\ n = 1 => k.intervalDays = 1
                   /\ n = 2 => k.intervalDays = 6
                   /\ n > 2 => k.intervalDays > 6)

\* five calls of quality >= 3 on a fresh pair have completed, not all of
\* quality 4, and the interval has grown past 6
C17_Witness ==
    /\ calls[1].pc = "done"
    /\ Len(PairOutcomes(calls[1].args)) = 5
    /\ AllGood(calls[1].args)
    /\ CardIn(cards, calls[1].args).easinessFactor < 250
    /\ CardIn(cards, calls[1].args).intervalDays > 6

(**************** CompetenceFrameworkService: the queries ******************)
\* the levels whose data the model carries
Levels == {"CE1", "CE2"}

\* CompetenceFrameworkService.getCompetencesByLevel
getCompetencesByLevel(niveau) ==
    IF niveau = "CE1" THEN CE1_COMPETENCES_2025
    ELSE IF niveau = "CE2" THEN CE2_COMPETENCES_2026
    ELSE <<>>

\* getCE1CompetenceByCode: its two return statements sit inside forEach
\* callbacks, so the function itself always reaches return null
getCE1CompetenceByCode(code) == NULL

\* getCompetenceByCode of the CE2 data: the entry of the first sub-domain
\* that has the code as a key
getCompetenceByCode(code) ==
    LET hits == SelectSeq(CE2_COMPETENCES_2026, LAMBDA e : e.code = code)
    IN IF hits = <<>> THEN NULL ELSE Some(hits[1])

\* CompetenceFrameworkService.getCompetenceByCode for a code that is not a
\* key of the CP registry: the CE1 lookup, then the CE2 lookup
UnifiedCompetenceByCode(code) ==
    IF getCE1CompetenceByCode(code) # NULL THEN getCE1CompetenceByCode(code)
    ELSE getCompetenceByCode(code)

\* [...new Set(s)]: the first occurrences, in order
RECURSIVE Dedup(_)
Dedup(s) ==
    IF s = <<>> THEN <<>>
    ELSE LET d == Dedup(SubSeq(s, 1, Len(s) - 1))
         IN IF \E i \in DOMAIN d : d[i] = s[Len(s)] THEN d ELSE Append(d, s[Len(s)])

\* the value of CompetenceFrameworkService.getPrerequisites(code)
PrerequisitesOf(code) ==
    LET dbPrerequisites ==
            SelectSeq(generatePrerequisites, LAMBDA r : r.competenceCode = code)
        dbPrereqCodes == [i \in DOMAIN dbPrerequisites |->
                            dbPrerequisites[i].prerequisiteCode]
        competence == UnifiedCompetenceByCode(code)
        frameworkPrereqs == IF competence = NULL THEN <<>>
                            ELSE The(competence).prerequis
    IN Dedup(dbPrereqCodes \o frameworkPrereqs)

\* the value of CompetenceFrameworkService.isBlocked(s, code): a prerequisite
\* blocks when the select finds no row or a first row that is not mastered
BlockedOf(s, code) ==
    LET blocking ==
            SelectSeq(PrerequisitesOf(code),
                LAMBDA c :
                    LET prereqProgress ==
                            {r \in progress : r.studentId = s /\ r.competenceCode = c}
                    IN \/ prereqProgress = {}
                       \/ (CHOOSE r \in prereqProgress : TRUE).masteryLevel # "mastered")
    IN [isBlocked |-> Len(blocking) > 0, blockingPrerequisites |-> blocking,
        missingPrerequisites |-> blocking]

\* the rows of set S in the order of their ids
RECURSIVE SeqById(_)
SeqById(S) ==
    IF S = {} THEN <<>>
    ELSE LET r == CHOOSE r \in S : \A q \in S : r.id <= q.id
         IN <<r>> \o SeqById(S \ {r})

\* select from studentProgress where studentId = s
StudentProgress(s) == SeqById({r \in progress : r.studentId = s})

\* progressMap.get(code): the last of the rows with that code
ProgressMapGet(s, code) ==
    LET hits == SelectSeq(StudentProgress(s), LAMBDA r : r.competenceCode = code)
    IN IF hits = <<>> THEN NULL ELSE Some(hits[Len(hits)])

Recommendation(priority, code, type, missing) ==
    [priority |-> priority, competenceCode |-> code, type |-> type,
     missing |-> missing]

\* getCE1CompetencesWithMajorLeaps: the entries with a saut_qualitatif
getCE1CompetencesWithMajorLeaps ==
    SelectSeq(CE1_COMPETENCES_2025, LAMBDA e : e.saut_qualitatif)

\* hasMajorQualitativeLeap of the CE2 data: saut_qualitatif or nouveaute of
\* the entry the lookup by code finds
hasMajorQualitativeLeap(code) ==
    LET competence == getCompetenceByCode(code)
    IN /\ competence # NULL
       /\ The(competence).saut_qualitatif \/ The(competence).nouveaute

getCompetencesWithMajorLeaps ==
    SelectSeq(CE2_COMPETENCES_2026, LAMBDA e : hasMajorQualitativeLeap(e.code))

priorityOrder(priority) ==
    IF priority = "high" THEN 3 ELSE IF priority = "medium" THEN 2 ELSE 1

\* a mutant of InsertByPriority: r goes before the elements of its priority
RECURSIVE InsertByPriority_BeforeEquals(_, _)
InsertByPriority_BeforeEquals(s, r) ==
    IF s = <<>> THEN <<r>>
    ELSE IF priorityOrder(r.priority) - priorityOrder(Head(s).priority) >= 0
         THEN <<r>> \o s
         ELSE <<Head(s)>> \o InsertByPriority_BeforeEquals(Tail(s), r)

\* s, sorted, with r put behind the elements the comparator does not place
\* after it
RECURSIVE InsertByPriority(_, _)
InsertByPriority(s, r) ==
    IF s = <<>> THEN <<r>>
    ELSE IF priorityOrder(r.priority) - priorityOrder(Head(s).priority) > 0
         THEN <<r>> \o s
         ELSE <<Head(s)>> \o InsertByPriority(Tail(s), r)

\* recommendations.sort((a, b) => priorityOrder[b.priority] -
\* priorityOrder[a.priority]); Array.prototype.sort is stable
RECURSIVE SortByPriority(_)
SortByPriority(s) ==
    IF s = <<>> THEN <<>>
    ELSE InsertByPriority(SortByPriority(SubSeq(s, 1, Len(s) - 1)), s[Len(s)])

\* a mutant of NeedingReview: every row of the learner
NeedingReview_All(studentProgress) == studentProgress

\* the rows the review loop of getRecommendations pushes an entry for
NeedingReview(studentProgress) ==
    SelectSeq(studentProgress, LAMBDA r : r.needsReview)

\* the list getRecommendations builds before it sorts
BuiltRecommendations(s, niveau) ==
    LET competences == getCompetencesByLevel(niveau)
        studentProgress == StudentProgress(s)
        toReview == NeedingReview(studentProgress)
        reviews == [i \in DOMAIN toReview |->
                      Recommendation("high", toReview[i].competenceCode, "review", <<>>)]
        unseen == SelectSeq(competences, LAMBDA e : ProgressMapGet(s, e.code) = NULL)
        starts == [i \in DOMAIN unseen |->
                     LET blocked == BlockedOf(s, unseen[i].code)
                     IN IF ~blocked.isBlocked
                        THEN Recommendation("medium", unseen[i].code, "new", <<>>)
                        ELSE Recommendation("low", unseen[i].code, "prerequisite",
                                            blocked.missingPrerequisites)]
        leaps == IF niveau = "CE1" THEN getCE1CompetencesWithMajorLeaps
                 ELSE IF niveau = "CE2" THEN getCompetencesWithMajorLeaps
                 ELSE <<>>
        climbing == SelectSeq(leaps,
                        LAMBDA e : /\ ProgressMapGet(s, e.code) # NULL
                                   /\ The(ProgressMapGet(s, e.code)).masteryLevel
                                          = "in_progress")
        remediations == [i \in DOMAIN climbing |->
                           Recommendation("high", climbing[i].code, "remediation", <<>>)]
    IN reviews \o starts \o remediations

\* the value of CompetenceFrameworkService.getRecommendations(s, niveau)
RecommendationsOf(s, niveau) == SortByPriority(BuiltRecommendations(s, niveau))

\* the CompetenceProgress entry of getLearningPath for entry e of the level
LearningPathEntry(s, niveau, e) ==
    LET found == ProgressMapGet(s, e.code)
        blocked == BlockedOf(s, e.code)
    IN [competenceCode |-> e.code,
        niveau |-> niveau,
        progressPercent |-> IF found = NULL THEN 0 ELSE The(found).progressPercent,
        masteryLevel |-> IF found = NULL THEN "not_started" ELSE The(found).masteryLevel,
        totalAttempts |-> IF found = NULL THEN 0 ELSE The(found).totalAttempts,
        successfulAttempts |->
            IF found = NULL THEN 0 ELSE The(found).successfulAttempts,
        averageQuality |->
            IF found = NULL THEN 0 ELSE CompetenceProgressOf(The(found)).averageQuality,
        needsReview |-> IF found = NULL THEN FALSE ELSE The(found).needsReview,
        lastAttemptAt |-> IF found = NULL THEN NULL ELSE Some(The(found).lastAttemptAt),
        masteredAt |-> IF found = NULL THEN NULL ELSE The(found).masteredAt,
        isBlocked |-> blocked.isBlocked,
        blockingPrerequisites |-> blocked.blockingPrerequisites]

\* the competences of the value of getLearningPath(s, niveau)
LearningPathCompetences(s, niveau) ==
    [i \in DOMAIN getCompetencesByLevel(niveau) |->
        LearningPathEntry(s, niveau, getCompetencesByLevel(niveau)[i])]

\* competenceProgress.filter(c => c.masteryLevel === level).length
CountLevel(q, level) == Cardinality({i \in DOMAIN q : q[i].masteryLevel = level})

\* the summary of the value of getLearningPath(s, niveau)
LearningPathSummary(s, niveau) ==
    LET competenceProgress == LearningPathCompetences(s, niveau)
        mastered == CountLevel(competenceProgress, "mastered")
    IN [totalCompetences |-> Len(getCompetencesByLevel(niveau)),
        mastered |-> mastered,
        inProgress |-> CountLevel(competenceProgress, "in_progress"),
        notStarted |-> CountLevel(competenceProgress, "not_started"),
        blocked |->
            Cardinality({i \in DOMAIN competenceProgress :
                            competenceProgress[i].isBlocked}),
        overallProgress |->
            RoundDiv(mastered * 10000, Len(getCompetencesByLevel(niveau)))]

\* a query is answered between two calls, once in a behaviour
CanQuery == reply = NoReply /\ \A p \in Procs : ~InFlight(p)

Answer(r) ==
    /\ CanQuery
    /\ reply' = r
    /\ UNCHANGED <<outcomes, errorPatterns, progress, cards, calls, clock, due>>

getPrerequisites(code) ==
    Answer([NoReply EXCEPT !.op = "getPrerequisites", !.code = code,
                           !.prerequisites = PrerequisitesOf(code)])

isBlocked(s, code) ==
    Answer([NoReply EXCEPT !.op = "isBlocked", !.studentId = s, !.code = code,
                           !.blocked = BlockedOf(s, code)])

getRecommendations(s, niveau) ==
    Answer([NoReply EXCEPT !.op = "getRecommendations", !.studentId = s,
                           !.niveau = niveau,
                           !.recommendations = RecommendationsOf(s, niveau)])

getLearningPath(s, niveau) ==
    Answer([NoReply EXCEPT !.op = "getLearningPath", !.studentId = s,
                           !.niveau = niveau,
                           !.recommendations = RecommendationsOf(s, niveau),
                           !.competences = LearningPathCompetences(s, niveau),
                           !.summary = LearningPathSummary(s, niveau)])

\* the listing of a level, asked of the service
GetCompetencesByLevel(niveau) ==
    Answer([NoReply EXCEPT !.op = "getCompetencesByLevel", !.niveau = niveau,
                           !.listing = getCompetencesByLevel(niveau)])

\* the lookup of a code, asked of the service
GetCompetenceByCode(code) ==
    Answer([NoReply EXCEPT !.op = "getCompetenceByCode", !.code = code,
                           !.competence = UnifiedCompetenceByCode(code)])

\* calls started in one behaviour of the framework specification
MaxPathCalls == 4

\* learner 1 on a CE1 skill and on three CE2 skills
PathAttempts ==
    {AttemptBy(1, "CE1.FR.L1.2", TRUE), AttemptBy(1, "CE2.FR.L.1.1", FALSE),
     AttemptBy(1, "CE2.FR.O.3.1", TRUE), AttemptBy(1, "CE2.FR.O.3.1", FALSE),
     AttemptBy(1, "CE2.FR.O.1.1", TRUE)}

\* the codes of the data carried by the model
AllCodes ==
    {CE1_COMPETENCES_2025[i].code : i \in DOMAIN CE1_COMPETENCES_2025}
        \cup {CE2_COMPETENCES_2026[i].code : i \in DOMAIN CE2_COMPETENCES_2026}

\* the codes looked up: those of the data and one that is in no level
LookupCodes == AllCodes \cup {"INVALID.CODE"}

PathRequest(p, a) ==
    /\ Len(outcomes) < MaxPathCalls
    /\ \A q \in Procs : ~InFlight(q)
    /\ p = 1
    /\ updateMastery(p, a)

NextPath ==
    \/ \E p \in Procs : (\E a \in PathAttempts : PathRequest(p, a)) \/ Step(p)
    \/ \E code \in AllCodes : getPrerequisites(code)
    \/ \E code \in AllCodes : isBlocked(1, code)
    \/ \E niveau \in Levels : getRecommendations(1, niveau)
    \/ \E niveau \in Levels : getLearningPath(1, niveau)
    \/ \E niveau \in Levels : GetCompetencesByLevel(niveau)
    \/ \E code \in LookupCodes : GetCompetenceByCode(code)

\* calls one after another, and one query of the framework
SpecPath == Init /\ [][NextPath]_vars

(****************** claims on the competence framework *********************)
SeqSet(q) == {q[i] : i \in DOMAIN q}

\* the entries of the curriculum data with the given code
EntriesOf(code) ==
    {e \in SeqSet(CE1_COMPETENCES_2025) \cup SeqSet(CE2_COMPETENCES_2026) :
        e.code = code}

\* the prerequisites the curriculum data declares for a code
DeclaredPrerequisites(code) == UNION {SeqSet(e.prerequis) : e \in EntriesOf(code)}

\* the prerequisite codes of the competencePrerequisites rows of a code
StoredPrerequisites(code) ==
    {r.prerequisiteCode : r \in {q \in SeqSet(generatePrerequisites) :
                                    q.competenceCode = code}}

\* learner s has a Progress row for code c that is mastered
HasMastered(s, c) ==
    \E r \in progress :
        r.studentId = s /\ r.competenceCode = c /\ r.masteryLevel = "mastered"

\* C21: the answer of getPrerequisites(code) lists, each once, exactly the
\* prerequisites the curriculum data declares for the code and those of the
\* stored edges of the code.
C21_PrerequisitesUnion ==
    reply.op = "getPrerequisites" =>
        /\ SeqSet(reply.prerequisites)
              = DeclaredPrerequisites(reply.code) \cup StoredPrerequisites(reply.code)
        /\ Cardinality(SeqSet(reply.prerequisites)) = Len(reply.prerequisites)

\* C22: the answer of isBlocked(s, code) has isBlocked true iff some
\* prerequisite of the code is not mastered by s (no Progress row, or one
\* that is not mastered), and its blockingPrerequisites and
\* missingPrerequisites are equal and hold exactly those prerequisites.
C22_BlockedIffUnmastered ==
    [][(reply' # reply /\ reply'.op = "isBlocked") =>
        LET unmet == {c \in DeclaredPrerequisites(reply'.code)
                              \cup StoredPrerequisites(reply'.code) :
                         ~HasMastered(reply'.studentId, c)}
            b == reply'.blocked
        IN /\ b.isBlocked = (unmet # {})
           /\ b.blockingPrerequisites = b.missingPrerequisites
           /\ SeqSet(b.blockingPrerequisites) = unmet]_vars

\* C23: the remediation a blocked call returns holds one 'Review
\* prerequisite' action for each prerequisite of the skill the learner has
\* not mastered, and nothing else.
C23_RemediationPerBlocking ==
    \A p \in Procs :
        (calls[p].pc = "done" /\ calls[p].result.status = "blocked") =>
            /\ calls[p].result.remediation # NULL
            /\ LET a == calls[p].args
                   rem == The(calls[p].result.remediation)
                   unmet == {c \in DeclaredPrerequisites(a.competenceCode)
                                     \cup StoredPrerequisites(a.competenceCode) :
                                ~HasMastered(a.studentId, c)}
               IN /\ \A i \in DOMAIN rem : rem[i].action = "Review prerequisite"
                  /\ \A i, j \in DOMAIN rem :
                        rem[i].prerequisiteCode = rem[j].prerequisiteCode => i = j
                  /\ {rem[i].prerequisiteCode : i \in DOMAIN rem} = unmet

\* the codes of the recommendations of list recs with the given type
CodesOfType(recs, type) ==
    {recs[i].competenceCode : i \in {j \in DOMAIN recs : recs[j].type = type}}

\* C24: the answer of getRecommendations(s, niveau) holds a review
\* recommendation for a code iff s has a Progress row of that code with
\* needsReview true, whatever the level of the code, and every review
\* recommendation has priority high.
C24_ReviewIffNeedsReview ==
    [][(reply' # reply /\ reply'.op = "getRecommendations") =>
        LET recs == reply'.recommendations
        IN /\ CodesOfType(recs, "review")
                 = {r.competenceCode :
                       r \in {q \in progress : /\ q.studentId = reply'.studentId
                                               /\ q.needsReview}}
           /\ \A i \in DOMAIN recs :
                 recs[i].type = "review" => recs[i].priority = "high"]_vars

\* a CE1 answer with a review of a CE2 code and none of the CE1 skill the
\* learner has a row for that needs no review
C24_Witness ==
    /\ reply.op = "getRecommendations"
    /\ reply.niveau = "CE1"
    /\ "CE2.FR.L.1.1" \in CodesOfType(reply.recommendations, "review")
    /\ \A i \in DOMAIN reply.recommendations :
          reply.recommendations[i].competenceCode # "CE1.FR.L1.2"

\* learner s has a Progress row for code c
HasRow(s, c) == \E r \in progress : r.studentId = s /\ r.competenceCode = c

\* the codes of the skills of a level
CodesOfLevel(niveau) ==
    {getCompetencesByLevel(niveau)[i].code : i \in DOMAIN getCompetencesByLevel(niveau)}

LeapCodes(niveau) ==
    {e.code : e \in {q \in SeqSet(getCompetencesByLevel(niveau)) : q.saut_qualitatif}}

\* C26: the answer of getRecommendations(s, niveau) holds a remediation
\* recommendation, of priority high, for exactly the codes of the level that
\* the curriculum flags as a qualitative leap and for which s has a Progress
\* row that is in_progress.
C26_RemediationForLeaps ==
    [][(reply' # reply /\ reply'.op = "getRecommendations") =>
        LET recs == reply'.recommendations
        IN /\ CodesOfType(recs, "remediation")
                 = {c \in LeapCodes(reply'.niveau) :
                       \E r \in progress : /\ r.studentId = reply'.studentId
                                           /\ r.competenceCode = c
                                           /\ r.masteryLevel = "in_progress"}
           /\ \A i \in DOMAIN recs :
                 recs[i].type = "remediation" => recs[i].priority = "high"]_vars

\* the places of the entries with code c in the list of a level
PlacesInLevel(niveau, c) ==
    {i \in DOMAIN getCompetencesByLevel(niveau) :
        getCompetencesByLevel(niveau)[i].code = c}

\* the places of the Progress rows of code c among the rows of learner s
PlacesOfRow(s, c) ==
    {i \in DOMAIN StudentProgress(s) : StudentProgress(s)[i].competenceCode = c}

\* recommendation a can have been built before recommendation b: reviews in
\* the order of the rows, then the skills without row in the order of the
\* level, then the remediations in the order of the level
BuiltBefore(s, niveau, a, b) ==
    LET phase(r) == IF r.type = "review" THEN 1
                    ELSE IF r.type = "remediation" THEN 3 ELSE 2
        places(r) == IF r.type = "review" THEN PlacesOfRow(s, r.competenceCode)
                     ELSE PlacesInLevel(niveau, r.competenceCode)
    IN \/ phase(a) < phase(b)
       \/ /\ phase(a) = phase(b)
          /\ \E i \in places(a) : \E j \in places(b) : i <= j

\* C27: the answer of getRecommendations is in descending priority (high,
\* medium, low), and recommendations of equal priority keep the order in
\* which they were built.
C27_SortedStable ==
    [][(reply' # reply /\ reply'.op = "getRecommendations") =>
        LET recs == reply'.recommendations
        IN \A i, j \in DOMAIN recs :
              i < j =>
                 /\ priorityOrder(recs[i].priority) >= priorityOrder(recs[j].priority)
                 /\ recs[i].priority = recs[j].priority =>
                       BuiltBefore(reply'.studentId, reply'.niveau,
                                   recs[i], recs[j])]_vars

\* an answer with the three priorities, a review and a remediation among
\* the high ones and two low ones
C27_Witness ==
    /\ reply.op = "getRecommendations"
    /\ LET recs == reply.recommendations
       IN /\ {recs[i].priority : i \in DOMAIN recs} = {"high", "medium", "low"}
          /\ \E i, j \in DOMAIN recs :
                i < j /\ recs[i].type = "review" /\ recs[j].type = "remediation"
          /\ \E i, j \in DOMAIN recs :
                /\ i < j /\ recs[i].priority = "low" /\ recs[j].priority = "low"
                /\ recs[i].competenceCode # recs[j].competenceCode

\* C28: the answer of getLearningPath(s, niveau) lists every code of the
\* level exactly once and nothing else, a code without Progress row as
\* not_started with zero percent and zero attempts, and its summary has
\* totalCompetences = the number of codes of the level, mastered +
\* inProgress + notStarted = totalCompetences, blocked = the number of
\* listed skills with isBlocked, and overallProgress = 100 x mastered /
\* totalCompetences rounded to two decimals.
C28_LearningPathSummary ==
    [][(reply' # reply /\ reply'.op = "getLearningPath") =>
        LET list == reply'.competences
            sum == reply'.summary
            s == reply'.studentId
        IN /\ \A c \in CodesOfLevel(reply'.niveau) :
                 Cardinality({i \in DOMAIN list : list[i].competenceCode = c}) = 1
           /\ \A i \in DOMAIN list :
                 /\ list[i].competenceCode \in CodesOfLevel(reply'.niveau)
                 /\ ~HasRow(s, list[i].competenceCode) =>
                       /\ list[i].masteryLevel = "not_started"
                       /\ list[i].progressPercent = 0
                       /\ list[i].totalAttempts = 0
           /\ sum.totalCompetences = Cardinality(CodesOfLevel(reply'.niveau))
           /\ sum.mastered + sum.inProgress + sum.notStarted = sum.totalCompetences
           /\ sum.blocked = Cardinality({i \in DOMAIN list : list[i].isBlocked})
           /\ sum.overallProgress
                 = RoundDiv(sum.mastered * 10000, sum.totalCompetences)]_vars

(********************* re-running the scheduling step **********************)
\* the row of card k after the scheduling step of updateMastery runs on it
\* for an attempt of the given quality: the card as read, calculateNextReview
\* on it, updateCardSchedule
RescheduledCard(k, quality, now) ==
    ScheduledCard(k, calculateNextReview(k, quality, now), quality, now)

\* C29: once a call has scheduled the card of its pair, running the
\* scheduling step again for the same attempt leaves the card's
\* easinessFactor, repetitionNumber and intervalDays as they are.
C29_SchedulerIdempotent ==
    \A p \in Procs :
        calls[p].pc = "isBlocked" =>
            \A k \in CardRows(calls[p].args) :
                Schedule(RescheduledCard(k, calls[p].args.quality, clock))
                    = Schedule(k)

(*************** calls on different pairs, in parallel *********************)
\* calls started in one behaviour of the different-pairs specification
MaxPairCalls == 3

\* learner 1 wrong on one skill and right on another, learner 2 wrong on
\* the first
PairAttempts ==
    {AttemptBy(1, "CE2.FR.L.1.1", FALSE), AttemptBy(1, "CE2.FR.L.1.2", TRUE),
     AttemptBy(2, "CE2.FR.L.1.1", FALSE)}

\* a request arrives while a call on another pair may be in flight, never
\* while a call on its own pair is
PairRequest(p, a) ==
    /\ Len(outcomes) < MaxPairCalls
    /\ \A q \in Procs : q < p => InFlight(q)
    /\ \A q \in Procs : InFlight(q) => ~SamePair(calls[q].args, a)
    /\ updateMastery(p, a)

NextPairs == \E p \in Procs : (\E a \in PairAttempts : PairRequest(p, a)) \/ Step(p)

\* concurrent calls on different pairs
SpecPairs == Init /\ [][NextPairs]_vars

\* the rows of table T, a set, that do not belong to the pair of a
OtherRows(T, a) == {r \in T : ~SamePair(r, a)}

\* the card after the outcomes of sequence q have been scheduled on it, one
\* after the other
RECURSIVE ScheduledInOrder(_, _)
ScheduledInOrder(k, q) ==
    IF q = <<>> THEN k
    ELSE ScheduledInOrder(Scheduled(k, Head(q).quality), Tail(q))

\* a step taken by the call in slot p: it arrives or moves on
StepOf(p) == calls'[p] # calls[p]

\* C30: a step of an updateMastery call leaves the Outcomes, ErrorPatterns,
\* Progress rows and ReviewCards of every other pair unchanged; and once
\* calls on different pairs that ran in parallel have completed, each pair
\* has one Progress row that holds the aggregate of the pair's window, one
\* ReviewCard scheduled once per outcome of the pair in the order of arrival,
\* and ErrorPattern counters equal to the pair's tagged outcomes, so the
\* final state does not depend on the interleaving (row ids and timestamps
\* apart).
C30_DifferentPairsIndependent ==
    /\ [][\A p \in Procs :
            StepOf(p) =>
               LET a == calls'[p].args
               IN /\ SelectSeq(outcomes', LAMBDA o : ~SamePair(o, a))
                        = SelectSeq(outcomes, LAMBDA o : ~SamePair(o, a))
                  /\ OtherRows(errorPatterns', a) = OtherRows(errorPatterns, a)
                  /\ OtherRows(progress', a) = OtherRows(progress, a)
                  /\ OtherRows(cards', a) = OtherRows(cards, a)]_vars
    /\ [](Quiescent =>
            /\ \A i \in DOMAIN outcomes :
                  LET a == outcomes[i]
                      mine == SelectSeq(outcomes, LAMBDA o : SamePair(o, a))
                  IN /\ \E r \in progress :
                           /\ {q \in progress : SamePair(q, a)} = {r}
                           /\ MatchesWindow(r)
                     /\ \E k \in cards :
                           /\ {q \in cards : SamePair(q, a)} = {k}
                           /\ Schedule(k) = Schedule(ScheduledInOrder(NewCard(a, 0), mine))
                           /\ k.lastQuality = mine[Len(mine)].quality
                     /\ \A j \in DOMAIN a.errorTags :
                           Cardinality({e \in errorPatterns :
                               SamePair(e, a) /\ e.tag = a.errorTags[j]}) = 1
            /\ \A e \in errorPatterns : e.occurrences = Cardinality(TaggedOutcomes(e)))

\* two calls on different pairs have completed, and the one that arrived
\* second wrote its Progress row first
C30_Witness ==
    /\ Quiescent
    /\ calls[1].pc = "done" /\ calls[2].pc = "done"
    /\ ~SamePair(calls[1].args, calls[2].args)
    /\ \E i, j \in DOMAIN outcomes :
          /\ i < j /\ ~SamePair(outcomes[i], outcomes[j])
          /\ \E r, q \in progress :
                SamePair(r, outcomes[i]) /\ SamePair(q, outcomes[j]) /\ q.id < r.id

(******************** the registry and the blocking status *****************)
\* C31: no two entries of the listing of a level carry the same code.
C31_CodesUnique ==
    reply.op = "getCompetencesByLevel" =>
        \A i, j \in DOMAIN reply.listing :
            reply.listing[i].code = reply.listing[j].code => i = j

\* C32: the lookup of a code that some level lists returns a record with
\* that code and that level, and the lookup of a code no level lists
\* returns null.
C32_LookupAgreesWithListing ==
    reply.op = "getCompetenceByCode" =>
        LET levels == {niveau \in Levels : reply.code \in CodesOfLevel(niveau)}
        IN IF levels = {} THEN reply.competence = NULL
           ELSE /\ reply.competence # NULL
                /\ The(reply.competence).code = reply.code
                /\ The(reply.competence).niveau \in levels

\* the number of wrong answers among the outcomes of sequence w
NumWrong(w) == Len(w) - NumCorrect(w)

MaxRaceCalls == 2

\* a right answer of quality 2: in_progress, masteredAt null
SlowStart == <<HistAttempt(TRUE, 2, 0)>>

\* three wrong answers and a right one
ThreeFails ==
    <<HistAttempt(FALSE, 2, 0), HistAttempt(FALSE, 2, 0), HistAttempt(FALSE, 2, 0),
      HistAttempt(TRUE, 5, 0)>>

\* a behaviour starts with one of these histories, its calls one after another
Histories == {SlowStart, ThreeFails}

\* the attempts sent in parallel after the history: right answers of
\* quality 5 and of quality 0
RaceAttempts == {HistAttempt(TRUE, 5, 0), HistAttempt(TRUE, 0, 0)}

RaceRequest(p, a) ==
    /\ \A q \in Procs : q < p => InFlight(q)
    /\ \E s \in Histories :
          \/ /\ Following(s)
             /\ \A q \in Procs : ~InFlight(q)
             /\ a = s[Len(outcomes) + 1]
          \/ /\ Followed(s)
             /\ Len(outcomes) < Len(s) + MaxRaceCalls
             /\ a \in RaceAttempts
    /\ updateMastery(p, a)

NextRace ==
    \E p \in Procs :
        \/ \E a \in RaceAttempts \cup {SlowStart[1]}
                       \cup {ThreeFails[i] : i \in DOMAIN ThreeFails} :
              RaceRequest(p, a)
        \/ Step(p)

\* concurrent calls on one pair that already has a history
SpecRace == Init /\ [][NextRace]_vars

\* C34: once a Progress row has a non-null masteredAt, every step of every
\* interleaving of calls on the pair keeps the row with that masteredAt: no
\* call that read the row earlier resets it to null or writes another
\* timestamp.
C34_MasteredAtSurvivesRaces ==
    [][\A r \in progress :
          r.masteredAt # NULL =>
             \E q \in progress' : q.id = r.id /\ q.masteredAt = r.masteredAt]_vars

\* C35: in the result of every completed call, whatever the interleaving,
\* remediation is non-null iff status is 'blocked'.
C35_RemediationIffBlocked ==
    \A p \in Procs :
        calls[p].pc = "done" =>
            (calls[p].result.remediation # NULL <=> calls[p].result.status = "blocked")

\* C36: every recommendation of the answer of getRecommendations(s, niveau)
\* names a skill of the listing of that level.
C36_RecommendationsInLevel ==
    [][(reply' # reply /\ reply'.op = "getRecommendations") =>
        \A i \in DOMAIN reply'.recommendations :
            reply'.recommendations[i].competenceCode
                \in CodesOfLevel(reply'.niveau)]_vars

\* C37: no Progress row is mastered with needsReview true, every Progress
\* row that is not_started has needsReview true, and no answer of
\* getRecommendations holds a review recommendation for a code of which the
\* learner's Progress row is mastered.
C37_MasteredNeedsNoReview ==
    /\ [](\A r \in progress :
             /\ ~(r.masteryLevel = "mastered" /\ r.needsReview)
             /\ r.masteryLevel = "not_started" => r.needsReview)
    /\ [][(reply' # reply /\ reply'.op = "getRecommendations") =>
            \A c \in CodesOfType(reply'.recommendations, "review") :
                ~HasMastered(reply'.studentId, c)]_vars

\* an answer of getRecommendations for a learner with a mastered row and a
\* not_started row: the second code is reviewed, the first is not
C37_Witness ==
    /\ reply.op = "getRecommendations"
    /\ \E r, q \in progress :
          /\ r.studentId = reply.studentId /\ q.studentId = reply.studentId
          /\ r.masteryLevel = "mastered" /\ q.masteryLevel = "not_started"
          /\ r.competenceCode \notin CodesOfType(reply.recommendations, "review")
          /\ q.competenceCode \in CodesOfType(reply.recommendations, "review")

(********************** the card after a completed call ********************)
\* C38: when a call has completed, its pair has a ReviewCard whose
\* lastQuality is the attempt's quality, whose intervalDays is at least 1
\* and whose nextReviewAt is the time of scheduling plus intervalDays days;
\* and a getDueCards answer holds no card scheduled less than a day before
\* the query.
C38_ScheduledAtLeastADayAhead ==
    /\ [](\A p \in Procs :
             calls[p].pc = "done" =>
                \E k \in cards :
                    /\ SamePair(k, calls[p].args)
                    /\ k.lastQuality = calls[p].args.quality
                    /\ k.intervalDays >= 1
                    /\ k.nextReviewAt = k.lastReviewAt + k.intervalDays * DayTicks)
    /\ [][due' # due =>
            \A i \in DOMAIN due'.rows :
                due'.now >= due'.rows[i].lastReviewAt + DayTicks]_vars

\* the card of the call that completed last is returned by a later query
C38_Witness ==
    /\ calls[1].pc = "done"
    /\ \E i \in DOMAIN due.rows :
          /\ SamePair(due.rows[i], calls[1].args)
          /\ due.rows[i].lastQuality = calls[1].args.quality
          /\ due.now > due.rows[i].lastReviewAt

(*************** any history, then a window of good answers ****************)
\* calls of the prior history in one behaviour
MaxPriorCalls == 3

\* the prior history: wrong answers of quality 0 with a hint, right answers
\* of quality 2 with six hints
PriorAttempts == {HistAttempt(FALSE, 0, 1), HistAttempt(TRUE, 2, 6)}

\* a right answer of quality 3 without hints
GoodAttempt == HistAttempt(TRUE, 3, 0)

\* the number of good answers on record
GoodRun ==
    Cardinality({i \in DOMAIN outcomes : AttemptOfRow(outcomes[i]) = GoodAttempt})

\* calls one after another: prior attempts until the first good answer, then
\* good answers only, a window of them at most
RecoverRequest(p, a) ==
    /\ \A q \in Procs : ~InFlight(q)
    /\ p = 1
    /\ \/ GoodRun = 0 /\ Len(outcomes) < MaxPriorCalls /\ a \in PriorAttempts
       \/ GoodRun < WindowSize /\ a = GoodAttempt
    /\ updateMastery(p, a)

NextRecover ==
    \E p \in Procs :
        \/ \E a \in PriorAttempts \cup {GoodAttempt} : RecoverRequest(p, a)
        \/ Step(p)

SpecRecover == Init /\ [][NextRecover]_vars

\* C39: after 20 consecutive calls, one after another, with a right answer
\* of quality >= 3 and no hints, whatever the history before them, the
\* pair's Progress row is mastered with progressPercent 100 and needsReview
\* false.
C39_MasteryRecoverable ==
    (GoodRun = WindowSize /\ Quiescent) =>
        /\ \E r \in progress : SamePair(r, GoodAttempt)
        /\ \A r \in progress :
              SamePair(r, GoodAttempt) =>
                 /\ r.masteryLevel = "mastered"
                 /\ r.progressPercent = 10000
                 /\ ~r.needsReview

\* the window of good answers has been played after three wrong answers
C39_Witness ==
    /\ GoodRun = WindowSize /\ Quiescent
    /\ Len(outcomes) = WindowSize + 3
    /\ \A i \in 1..3 : ~outcomes[i].isCorrect
    /\ \E r \in progress : r.masteryLevel = "mastered" /\ r.totalAttempts = WindowSize
====
